---- MODULE Spec2Model ----
(***************************************************************************)
(* Model of the topology view component of r1mapper (TopologyView with     *)
(* layouts, pan/zoom, device dragging and saved views).                    *)
(*                                                                         *)
(* Conventions.  Lengths are kept in thousandths of a pixel ("milli"), so  *)
(* that the divisions of the layout code keep three decimals.  The zoom    *)
(* factor is kept in thousandths too (1000 = zoom 1).  A React state       *)
(* setter called in a handler is visible only after the handler returns,   *)
(* so every handler below reads the unprimed (rendered) state and the      *)
(* layout effect that a render triggers is part of the same step.          *)
(***************************************************************************)
EXTENDS Integers, Sequences, FiniteSets, TLC

----------------------------------------------------------------------------
(* Bounds of the model *)

MaxDeviceMoves == 1
MaxPanMoves == 1
MaxWheel == 1
MaxStorageWrites == 3
MaxDragMoves == 2

----------------------------------------------------------------------------
(* Devices, links, viewport sizes and pointer coordinates fed to the view *)

LayoutTypes == {"circle", "hierarchical", "force-directed", "grid", "tree"}

dS == [id |-> "s1", type |-> "switch"]
dS2 == [id |-> "s2", type |-> "switch"]

dA == [id |-> "a1", type |-> "ap"]
dR == [id |-> "r1", type |-> "router"]

DeviceIdOrder == <<"s1", "s2", "a1", "r1">>

DeviceIds == {DeviceIdOrder[i] : i \in 1..Len(DeviceIdOrder)}

Link(local, remote) == [localDeviceId |-> local, remoteDeviceId |-> remote]

\* what getNetworkTopology may deliver: {devices, links}
Topologies ==
  { [devices |-> <<>>, links |-> <<>>],
    [devices |-> <<dS, dA>>, links |-> <<Link("a1", "s1")>>],
    [devices |-> <<dA, dR>>, links |-> <<>>],
    [devices |-> <<dS, dS2, dA>>, links |-> <<Link("a1", "s2")>>],
    [devices |-> <<dR, dA, dS2, dS>>,
     links |-> <<Link("a1", "s2"), Link("s2", "s1"), Link("s1", "s1")>>],
    [devices |-> <<dS, dA, dR>>, links |-> <<Link("a1", "s1"), Link("r1", "gone")>>] }

DimensionChoices == { [width |-> 800, height |-> 600], [width |-> 1000, height |-> 600] }

ClientPoints == { [x |-> 0, y |-> 0], [x |-> 50, y |-> 0] }

RandomSeeds == {0, 1}

\* Math.random() is drawn by the force-directed layout only
SeedsFor(layout) == IF layout = "force-directed" THEN RandomSeeds ELSE {0}

\* confirm() is shown by the layout selector only while some device is manual
AnswersFor(manual) == IF manual = {} THEN {TRUE} ELSE BOOLEAN

NoVenue == "none"

Venues == {"v1", "v2"}

NoDevice == "null"

ViewNames == { <<"A">>, <<"B">> }

PromptTexts == { <<>>, <<" ">>, <<"A">>, <<" ", "A", " ">>, <<"B">> }

\* prompt() returns null when cancelled, the typed text otherwise
TextsFor(cancelled) == IF cancelled THEN {<<>>} ELSE PromptTexts

----------------------------------------------------------------------------
(* Small helpers *)

Min(a, b) == IF a < b THEN a ELSE b

Max(a, b) == IF a > b THEN a ELSE b

Ids(devs) == {devs[i].id : i \in 1..Len(devs)}

Filter(devs, types) == SelectSeq(devs, LAMBDA d : d.type \in types)

Others(devs) == SelectSeq(devs, LAMBDA d : d.type # "switch" /\ d.type # "ap")

EmptyMap == [id \in {} |-> [x |-> 0, y |-> 0]]

\* Map.set on a position map
PosSet(m, id, p) == [k \in DOMAIN m \cup {id} |-> IF k = id THEN p ELSE m[k]]

CeilDiv(a, b) == (a + b - 1) \div b

CeilSqrt(n) == CHOOSE c \in 0..n : c * c >= n /\ (c = 0 \/ (c - 1) * (c - 1) < n)

\* cos and sin of t/12 of a full turn, times 1000
Cos12 == <<1000, 866, 500, 0, -500, -866, -1000, -866, -500, 0, 500, 866>>

Sin12 == <<0, 500, 866, 1000, 866, 500, 0, -500, -866, -1000, -866, -500>>

\* Math.cos((2 * Math.PI * index) / n) * 1000, for n dividing 12
Cos1000(index, n) == Cos12[((12 * index) \div n) + 1]

Sin1000(index, n) == Sin12[((12 * index) \div n) + 1]

margin == 50

----------------------------------------------------------------------------
(* Layout algorithms: calculateLayout, one operator per case *)

\* positions.set(device.id, at[i]) for the devices of seq in order; a later
\* set of the same id overwrites the earlier one
Place(seq, at) ==
  [id \in Ids(seq) |->
     at[CHOOSE i \in 1..Len(seq) : seq[i].id = id /\ \A j \in (i + 1)..Len(seq) : seq[j].id # id]]

Merge(m1, m2) == [k \in DOMAIN m1 \cup DOMAIN m2 |-> IF k \in DOMAIN m2 THEN m2[k] ELSE m1[k]]

CircleLayout(devs, dims) ==
  LET radius == (Min(dims.width, dims.height) * 3) \div 10
      n == Len(devs)
  IN Place(devs, [i \in 1..n |-> [x |-> dims.width * 500 + radius * Cos1000(i - 1, n),
                                  y |-> dims.height * 500 + radius * Sin1000(i - 1, n)]])

TierRow(tier, dims, y) ==
  Place(tier, [i \in 1..Len(tier) |->
                 [x |-> margin * 1000
                          + ((i - 1) * (dims.width - 2 * margin) * 1000) \div Max(Len(tier) - 1, 1),
                  y |-> y]])

HierarchicalLayout(devs, dims) ==
  LET switches == Filter(devs, {"switch"})
      aps == Filter(devs, {"ap"})
      others == Others(devs)
  IN Merge(Merge(TierRow(switches, dims, (margin + 50) * 1000),
                 TierRow(aps, dims, dims.height * 500)),
           TierRow(others, dims, (dims.height - margin - 50) * 1000))

GridLayoutColumnMajor(devs, dims) ==
  LET cols == CeilSqrt(Len(devs))
      rows == CeilDiv(Len(devs), cols)
      cellWidth == ((dims.width - 2 * margin) * 1000) \div cols
      cellHeight == ((dims.height - 2 * margin) * 1000) \div rows
  IN Place(devs, [i \in 1..Len(devs) |->
                    [x |-> margin * 1000 + ((i - 1) \div rows) * cellWidth + cellWidth \div 2,
                     y |-> margin * 1000 + ((i - 1) % rows) * cellHeight + cellHeight \div 2]])

GridLayout(devs, dims) ==
  LET cols == CeilSqrt(Len(devs))
      cellWidth == ((dims.width - 2 * margin) * 1000) \div cols
      cellHeight == ((dims.height - 2 * margin) * 1000) \div CeilDiv(Len(devs), cols)
  IN Place(devs, [i \in 1..Len(devs) |->
                    [x |-> margin * 1000 + ((i - 1) % cols) * cellWidth + cellWidth \div 2,
                     y |-> margin * 1000 + ((i - 1) \div cols) * cellHeight + cellHeight \div 2]])

Ring(seq, dims, radius) ==
  Place(seq, [i \in 1..Len(seq) |->
                [x |-> dims.width * 500 + radius * Cos1000(i - 1, Max(Len(seq), 1)),
                 y |-> dims.height * 500 + radius * Sin1000(i - 1, Max(Len(seq), 1))]])

TreeLayoutAllCentred(devs, dims) ==
  LET switches == Filter(devs, {"switch"})
      centre == [x |-> dims.width * 500, y |-> dims.height * 500]
  IN Merge(Merge(Place(switches, [i \in 1..Len(switches) |-> centre]),
                 Ring(Filter(devs, {"ap"}), dims, (Min(dims.width, dims.height) * 25) \div 100)),
           Ring(Others(devs), dims, (Min(dims.width, dims.height) * 4) \div 10))

\* the tree case; its fallback without a switch repeats the circle code
TreeLayout(devs, dims) ==
  LET switches == Filter(devs, {"switch"})
      treeAPs == Filter(devs, {"ap"})
      treeOthers == Others(devs)
      treeRadius == (Min(dims.width, dims.height) * 25) \div 100
      outerRadius == (Min(dims.width, dims.height) * 4) \div 10
      radius == (Min(dims.width, dims.height) * 3) \div 10
  IN IF Len(switches) > 0
       THEN Merge(Merge(PosSet(EmptyMap, switches[1].id,
                               [x |-> dims.width * 500, y |-> dims.height * 500]),
                        Ring(treeAPs, dims, treeRadius)),
                  Ring(treeOthers, dims, outerRadius))
       ELSE Ring(devs, dims, radius)

\* The simulation starts every device at a Math.random() point of the
\* margin-inset viewport and clamps every later position into it; the outcome
\* is a point of that box for each device, chosen by the seed.
ForceDirectedLayout(devs, lnks, dims, seed) ==
  Place(devs, [i \in 1..Len(devs) |->
                 [x |-> Max(margin * 1000, Min((dims.width - margin) * 1000,
                            margin * 1000 + ((i + seed) % 3) * (dims.width - 2 * margin) * 500)),
                  y |-> Max(margin * 1000, Min((dims.height - margin) * 1000,
                            margin * 1000 + ((i + 2 * seed) % 3) * (dims.height - 2 * margin) * 500))]])

AlgorithmicLayout(layout, devs, lnks, dims, seed) ==
  CASE layout = "circle" -> CircleLayout(devs, dims)
    [] layout = "hierarchical" -> HierarchicalLayout(devs, dims)
    [] layout = "grid" -> GridLayout(devs, dims)
    [] layout = "tree" -> TreeLayout(devs, dims)
    [] layout = "force-directed" -> ForceDirectedLayout(devs, lnks, dims, seed)

PreserveNothing(positions, manual, current) == positions

\* "Preserve positions for manually positioned devices"
PreserveManual(positions, manual, current) ==
  [k \in DOMAIN positions \cup (manual \cap DOMAIN current) |->
      IF k \in manual /\ k \in DOMAIN current THEN current[k] ELSE positions[k]]

\* calculateLayout(layout) evaluated against the rendered state it closes over
calculateLayout(layout, devs, lnks, dims, manual, current, seed) ==
  IF Len(devs) = 0 THEN EmptyMap
  ELSE PreserveManual(AlgorithmicLayout(layout, devs, lnks, dims, seed), manual, current)

----------------------------------------------------------------------------
(* The force-directed simulation, step by step.  Inside the simulation     *)
(* lengths are kept in tenths of a pixel, so that the squares of the       *)
(* distances stay within the integers of the checker.                      *)

iterations == 100

RECURSIVE SqrtBetween(_, _, _)
SqrtBetween(v, lo, hi) ==
  IF lo >= hi THEN lo
  ELSE LET mid == (lo + hi + 1) \div 2
       IN IF mid * mid <= v THEN SqrtBetween(v, mid, hi) ELSE SqrtBetween(v, lo, mid - 1)

\* Math.sqrt, rounded down
Sqrt(v) == SqrtBetween(v, 0, Min(v, 46340))

RECURSIVE Sum(_, _)
Sum(f, S) ==
  IF S = {} THEN 0
  ELSE LET x == CHOOSE x \in S : TRUE IN f[x] + Sum(f, S \ {x})

\* const k = Math.sqrt((dimensions.width * dimensions.height) / devices.length)
kOuter(dims, n) == Sqrt((dims.width * dims.height * 100) \div n)

\* the k that line 233 reads: the index of the inner loop "for (let k = j + 1; ...)"
\* hides the constant; read as a length it is k pixels
kInner(dims, n, k) == 10 * k

\* Math.random() * (extent - 2 * margin) + margin; the seed draws 0, 1/3 or
\* 2/3 for each Math.random()
RandomPoint(i, dims, seed) ==
  [x |-> margin * 10 + (((i + seed) % 3) * (dims.width - 2 * margin) * 10) \div 3,
   y |-> margin * 10 + (((i + 2 * seed) % 3) * (dims.height - 2 * margin) * 10) \div 3]

InitialPositions(devs, dims, seed) ==
  Place(devs, [i \in 1..Len(devs) |-> RandomPoint(i, dims, seed)])

\* Math.sqrt(dx * dx + dy * dy) || 1
Distance(dx, dy) ==
  LET d == Sqrt(dx * dx + dy * dy) IN IF d = 0 THEN 1 ELSE d

\* the pairs <<j, k>> the two repulsion loops visit (indexes from 0)
Pairs(n) == { pr \in (0..(n - 1)) \X (0..(n - 1)) : pr[1] < pr[2] }

\* body of the repulsion loops for devices[j] and devices[k]
Repulsion(positions, devs, dims, j, k) ==
  LET pos1 == positions[devs[j + 1].id]
      pos2 == positions[devs[k + 1].id]
      dx == pos1.x - pos2.x
      dy == pos1.y - pos2.y
      distance == Distance(dx, dy)
      force == (kInner(dims, Len(devs), k) * kInner(dims, Len(devs), k)) \div distance
  IN [applied |-> TRUE, distance |-> distance, force |-> force,
      fx |-> (dx * force) \div distance, fy |-> (dy * force) \div distance]

NoForce == [applied |-> FALSE, distance |-> 0, force |-> 0, fx |-> 0, fy |-> 0]

AttractionTowardsOrigin(positions, devs, dims, link) ==
  LET origin == [x |-> 0, y |-> 0]
      pos1 == IF link.localDeviceId \in DOMAIN positions
                THEN positions[link.localDeviceId] ELSE origin
      pos2 == IF link.remoteDeviceId \in DOMAIN positions
                THEN positions[link.remoteDeviceId] ELSE origin
      dx == pos2.x - pos1.x
      dy == pos2.y - pos1.y
      distance == Distance(dx, dy)
      force == (distance * distance) \div kOuter(dims, Len(devs))
  IN [applied |-> TRUE, distance |-> distance, force |-> force,
      fx |-> (dx * force) \div distance, fy |-> (dy * force) \div distance]

\* body of links.forEach: nothing unless both ends have a position
Attraction(positions, devs, dims, link) ==
  IF link.localDeviceId \in DOMAIN positions /\ link.remoteDeviceId \in DOMAIN positions
    THEN LET pos1 == positions[link.localDeviceId]
             pos2 == positions[link.remoteDeviceId]
             dx == pos2.x - pos1.x
             dy == pos2.y - pos1.y
             distance == Distance(dx, dy)
             force == (distance * distance) \div kOuter(dims, Len(devs))
         IN [applied |-> TRUE, distance |-> distance, force |-> force,
             fx |-> (dx * force) \div distance, fy |-> (dy * force) \div distance]
    ELSE NoForce

\* forces.get(id) once both loops are done, from the per-pair and per-link forces
TotalForce(id, devs, lnks, rep, att) ==
  LET sign(pr) == IF devs[pr[1] + 1].id = id THEN 1
                  ELSE IF devs[pr[2] + 1].id = id THEN -1 ELSE 0
      pull(l) == (IF lnks[l].localDeviceId = id THEN 1 ELSE 0)
                 - (IF lnks[l].remoteDeviceId = id THEN 1 ELSE 0)
  IN [x |-> Sum([pr \in DOMAIN rep |-> sign(pr) * rep[pr].fx], DOMAIN rep)
            + Sum([l \in DOMAIN att |-> pull(l) * att[l].fx], DOMAIN att),
      y |-> Sum([pr \in DOMAIN rep |-> sign(pr) * rep[pr].fy], DOMAIN rep)
            + Sum([l \in DOMAIN att |-> pull(l) * att[l].fy], DOMAIN att)]

\* one pass of "for (let i = 0; i < iterations; i++)": the forces of the
\* pass and the positions after "Apply forces" (damping 0.1, clamped)
ForceIterate(positions, devs, lnks, dims) ==
  LET rep == [pr \in Pairs(Len(devs)) |-> Repulsion(positions, devs, dims, pr[1], pr[2])]
      att == [l \in 1..Len(lnks) |-> Attraction(positions, devs, dims, lnks[l])]
      moved(id) ==
        LET force == TotalForce(id, devs, lnks, rep, att)
        IN [x |-> Max(margin * 10, Min((dims.width - margin) * 10,
                                       positions[id].x + force.x \div 10)),
            y |-> Max(margin * 10, Min((dims.height - margin) * 10,
                                       positions[id].y + force.y \div 10))]
  IN [positions |-> [id \in DOMAIN positions |-> moved(id)],
      repulsion |-> rep, attraction |-> att]

\* the positions map of the simulation in the unit of the position store
ToStore(positions) ==
  [id \in DOMAIN positions |-> [x |-> positions[id].x * 100, y |-> positions[id].y * 100]]

----------------------------------------------------------------------------
(* What the svg shows of the links *)

NoLine == [drawn |-> FALSE, x1 |-> 0, y1 |-> 0, x2 |-> 0, y2 |-> 0]

\* body of links.map: null unless both ends have a position
RenderLink(link, positions) ==
  IF link.localDeviceId \in DOMAIN positions /\ link.remoteDeviceId \in DOMAIN positions
    THEN LET sourcePos == positions[link.localDeviceId]
             targetPos == positions[link.remoteDeviceId]
         IN [drawn |-> TRUE, x1 |-> sourcePos.x, y1 |-> sourcePos.y,
             x2 |-> targetPos.x, y2 |-> targetPos.y]
    ELSE NoLine

RenderedLinks(lnks, positions) == [l \in 1..Len(lnks) |-> RenderLink(lnks[l], positions)]

----------------------------------------------------------------------------
(* Saved views: the in-memory Map (insertion ordered) and its JSON form *)

Names(views) == {views[i].name : i \in 1..Len(views)}

\* Map.get
ViewGet(views, name) == views[CHOOSE i \in 1..Len(views) : views[i].name = name]

ViewSetAppend(views, name, data) ==
  Append(views, [name |-> name, positions |-> data.positions, layout |-> data.layout,
                 manuallyPositioned |-> data.manuallyPositioned])

\* Map.set: an existing key keeps its place, a new key goes last
ViewSet(views, name, data) ==
  LET entry == [name |-> name, positions |-> data.positions, layout |-> data.layout,
                manuallyPositioned |-> data.manuallyPositioned]
  IN IF name \in Names(views)
       THEN [i \in 1..Len(views) |-> IF views[i].name = name THEN entry ELSE views[i]]
       ELSE Append(views, entry)

\* Map.delete
ViewDelete(views, name) == SelectSeq(views, LAMBDA v : v.name # name)

\* Array.from(map.entries()) and Array.from(set), in the order of DeviceIdOrder
PositionEntries(positions) ==
  LET present == SelectSeq(DeviceIdOrder, LAMBDA id : id \in DOMAIN positions)
  IN [i \in 1..Len(present) |-> <<present[i], positions[present[i]]>>]

SetToArray(set) == SelectSeq(DeviceIdOrder, LAMBDA id : id \in set)

\* the array handed to JSON.stringify by saveView and deleteView
ToViewsArray(views) ==
  [i \in 1..Len(views) |-> [name |-> views[i].name,
                            positions |-> PositionEntries(views[i].positions),
                            layout |-> views[i].layout,
                            manuallyPositioned |-> SetToArray(views[i].manuallyPositioned)]]

\* new Map(entries) and new Set(array)
PositionsFromEntries(entries) ==
  [id \in {entries[i][1] : i \in 1..Len(entries)} |->
      entries[CHOOSE i \in 1..Len(entries) : entries[i][1] = id /\ \A j \in (i+1)..Len(entries) : entries[j][1] # id][2]]

ArrayToSet(arr) == {arr[i] : i \in 1..Len(arr)}

RECURSIVE FromViewsArray(_)
\* viewsArray.forEach(view => viewsMap.set(view.name, ...))
FromViewsArray(arr) ==
  IF Len(arr) = 0 THEN <<>>
  ELSE LET last == arr[Len(arr)]
       IN ViewSet(FromViewsArray(SubSeq(arr, 1, Len(arr) - 1)), last.name,
                  [positions |-> PositionsFromEntries(last.positions), layout |-> last.layout,
                   manuallyPositioned |-> ArrayToSet(last.manuallyPositioned)])

\* Math.random() draws that may follow a load of the view
SeedsForView(views, name) ==
  IF name \in Names(views) THEN SeedsFor(ViewGet(views, name).layout) ELSE {0}

\* values of localStorage.getItem(`topology-views-${venueId}`)
NullItem == [kind |-> "null", views |-> <<>>]

CorruptItem == [kind |-> "corrupt", views |-> <<>>]

JsonItem(arr) == [kind |-> "json", views |-> arr]

RECURSIVE TrimStart(_)
TrimStart(s) == IF Len(s) > 0 /\ Head(s) = " " THEN TrimStart(Tail(s)) ELSE s

RECURSIVE TrimEnd(_)
TrimEnd(s) == IF Len(s) > 0 /\ s[Len(s)] = " " THEN TrimEnd(SubSeq(s, 1, Len(s) - 1)) ELSE s

\* String.prototype.trim
Trim(s) == TrimEnd(TrimStart(s))

----------------------------------------------------------------------------
(* State *)

VARIABLES
  devices, links, venueId, selectedDevice, localStorage,
  dimensions, layoutType, zoom, pan, isDragging, dragStart, lastPan,
  isDraggingDevice, draggedDeviceId, deviceDragStart, devicePositions,
  manuallyPositionedDevices, savedViews,
  lastOp, lastDrag, dragOrigin, savedAt, nDeviceMoves, nPanMoves, nWheel, nWrites,
  simulation

props == <<devices, links, venueId, selectedDevice>>

viewport == <<zoom, pan>>

panState == <<isDragging, dragStart, lastPan>>

dragState == <<isDraggingDevice, draggedDeviceId, deviceDragStart, dragOrigin>>

store == <<devicePositions, manuallyPositionedDevices>>

counters == <<nDeviceMoves, nPanMoves, nWheel, nWrites>>

vars == <<devices, links, venueId, selectedDevice, localStorage, dimensions, layoutType, zoom, pan,
          isDragging, dragStart, lastPan, isDraggingDevice, draggedDeviceId,
          deviceDragStart, devicePositions, manuallyPositionedDevices, savedViews,
          lastOp, lastDrag, dragOrigin, savedAt, nDeviceMoves, nPanMoves, nWheel, nWrites,
          simulation>>

\* what the last handler was, what it asked the user and what it told the user
Op(kind, name, asked, answer, alert) ==
  [kind |-> kind, name |-> name, asked |-> asked, answer |-> answer, alert |-> alert,
   input |-> <<>>]

\* a save that went through: input is the text typed into prompt()
SaveOp(name, text) ==
  [kind |-> "saveView", name |-> name, asked |-> "prompt", answer |-> TRUE,
   alert |-> "saved successfully", input |-> text]

\* where the device drag in progress began: pointer, position of the device
\* and zoom at the mouse-down (zoom 0 once a wheel event changed it mid-drag)
NoOrigin == [pointer |-> [x |-> 0, y |-> 0], position |-> [x |-> 0, y |-> 0], zoom |-> 0]

\* a pointer move: input is the pointer position <<clientX, clientY>>
MoveOp(p) == [Op("mouseMove", <<>>, "none", FALSE, "") EXCEPT !.input = <<p.x, p.y>>]

\* a click on a device: name holds the device id, answer tells whether
\* onDeviceSelect was called
ClickOp(id, selected) ==
  [Op("click", <<id>>, "none", FALSE, "") EXCEPT !.answer = selected]

NoSnapshot == [saved |-> FALSE, devices |-> <<>>, dimensions |-> [width |-> 0, height |-> 0],
               layout |-> "", positions |-> EmptyMap, manuallyPositioned |-> {}]

\* no force-directed run in progress
NoSimulation ==
  [running |-> FALSE, i |-> 0, positions |-> EmptyMap, repulsion |-> <<>>, attraction |-> <<>>]

Init ==
  /\ devices = <<>>
  /\ links = <<>>
  /\ venueId = NoVenue
  /\ selectedDevice = NoDevice
  /\ localStorage = [v \in Venues |-> IF v = "v2" THEN CorruptItem ELSE NullItem]
  /\ dimensions = [width |-> 800, height |-> 600]
  /\ layoutType = "hierarchical"
  /\ zoom = 1000
  /\ pan = [x |-> 0, y |-> 0]
  /\ isDragging = FALSE
  /\ dragStart = [x |-> 0, y |-> 0]
  /\ lastPan = [x |-> 0, y |-> 0]
  /\ isDraggingDevice = FALSE
  /\ draggedDeviceId = NoDevice
  /\ deviceDragStart = [x |-> 0, y |-> 0]
  /\ devicePositions = EmptyMap
  /\ manuallyPositionedDevices = {}
  /\ savedViews = <<>>
  /\ lastOp = Op("mount", <<>>, "none", FALSE, "")
  /\ lastDrag = EmptyMap
  /\ dragOrigin = NoOrigin
  /\ savedAt = [k \in Venues \X ViewNames |-> NoSnapshot]
  /\ nDeviceMoves = 0
  /\ nPanMoves = 0
  /\ nWheel = 0
  /\ nWrites = 0
  /\ simulation = NoSimulation

----------------------------------------------------------------------------
(* Operations.  Each action is one event handler together with the effects *)
(* the following render runs.                                              *)

\* App: setDevices(topology.devices); setLinks(topology.links); then the
\* layout effect on [devices, dimensions, layoutType]
Refresh(devs, lnks, seed) ==
  /\ devices' = devs
  /\ links' = lnks
  /\ devicePositions' = calculateLayout(layoutType, devs, lnks, dimensions,
                                         manuallyPositionedDevices, devicePositions, seed)
  /\ lastOp' = Op("refresh", <<>>, "none", FALSE, "")
  /\ UNCHANGED <<simulation, venueId, selectedDevice, localStorage, dimensions, layoutType, viewport, panState,
                 dragState, manuallyPositionedDevices, savedViews, lastDrag, savedAt, counters>>

\* updateDimensions on window resize, then the layout effect
Resize(dims, seed) ==
  /\ dimensions' = dims
  /\ devicePositions' = calculateLayout(layoutType, devices, links, dims,
                                         manuallyPositionedDevices, devicePositions, seed)
  /\ lastOp' = Op("resize", <<>>, "none", FALSE, "")
  /\ UNCHANGED <<simulation, props, localStorage, layoutType, viewport, panState, dragState,
                 manuallyPositionedDevices, savedViews, lastDrag, savedAt, counters>>

\* the venueId prop changes; effect "Load saved views from localStorage"
SetVenue(v) ==
  /\ v # venueId
  /\ venueId' = v
  /\ savedViews' = IF v = NoVenue THEN savedViews
                   ELSE IF localStorage[v].kind = "null" THEN <<>>
                   ELSE IF localStorage[v].kind = "json" THEN FromViewsArray(localStorage[v].views)
                   ELSE savedViews
  /\ lastOp' = Op("setVenue", <<>>, "none", FALSE, "")
  /\ UNCHANGED <<simulation, devices, links, selectedDevice, localStorage, dimensions, layoutType, viewport,
                 panState, dragState, store, lastDrag, savedAt, counters>>

\* the layout effect alone: the parent rendered again and handed over a fresh
\* devices array with the same content
layoutEffect(seed) ==
  /\ devicePositions' = calculateLayout(layoutType, devices, links, dimensions,
                                         manuallyPositionedDevices, devicePositions, seed)
  /\ lastOp' = Op("layoutEffect", <<>>, "none", FALSE, "")
  /\ UNCHANGED <<simulation, props, localStorage, dimensions, layoutType, viewport, panState, dragState,
                 manuallyPositionedDevices, savedViews, lastDrag, savedAt, counters>>

\* handleMouseDown with e.target === e.currentTarget
MouseDownCanvas(p) ==
  /\ isDragging' = TRUE
  /\ dragStart' = p
  /\ lastPan' = pan
  /\ lastOp' = Op("mouseDownCanvas", <<>>, "none", FALSE, "")
  /\ UNCHANGED <<simulation, props, localStorage, dimensions, layoutType, viewport, dragState, store,
                 savedViews, lastDrag, savedAt, counters>>

\* onMouseDown of a rendered device; the bubbled handleMouseDown does nothing
MouseDownDevice(id, p) ==
  /\ id \in Ids(devices)
  /\ id \in DOMAIN devicePositions
  /\ isDraggingDevice' = TRUE
  /\ draggedDeviceId' = id
  /\ deviceDragStart' = p
  /\ dragOrigin' = [pointer |-> p, position |-> devicePositions[id], zoom |-> zoom]
  /\ lastOp' = Op("mouseDownDevice", <<>>, "none", FALSE, "")
  /\ UNCHANGED <<simulation, props, localStorage, dimensions, layoutType, viewport, panState, store,
                 savedViews, lastDrag, savedAt, counters>>

DragDeltaScreen(from, to, z) == (to - from) * 1000

\* (e.clientX - deviceDragStart.x) / zoom
DragDelta(from, to, z) == ((to - from) * 1000000) \div z

\* the moves a specification still allows: device-drag moves up to maxDevice,
\* pan moves up to MaxPanMoves
MoveBudget(maxDevice) ==
  /\ (isDraggingDevice /\ draggedDeviceId \in DOMAIN devicePositions) => nDeviceMoves < maxDevice
  /\ (~(isDraggingDevice /\ draggedDeviceId # NoDevice) /\ isDragging) => nPanMoves < MaxPanMoves

handleMouseMove(p) ==
  /\ lastOp' = MoveOp(p)
  /\ IF isDraggingDevice /\ draggedDeviceId # NoDevice
       THEN IF draggedDeviceId \in DOMAIN devicePositions
              THEN LET currentPos == devicePositions[draggedDeviceId]
                       newPos == [x |-> currentPos.x + DragDelta(deviceDragStart.x, p.x, zoom),
                                  y |-> currentPos.y + DragDelta(deviceDragStart.y, p.y, zoom)]
                   IN /\ nDeviceMoves' = Min(nDeviceMoves + 1, MaxDragMoves)
                      /\ devicePositions' = PosSet(devicePositions, draggedDeviceId, newPos)
                      /\ deviceDragStart' = p
                      /\ manuallyPositionedDevices' = manuallyPositionedDevices \cup {draggedDeviceId}
                      /\ lastDrag' = PosSet(lastDrag, draggedDeviceId, newPos)
                      /\ UNCHANGED <<simulation, props, localStorage, dimensions, layoutType, viewport, panState,
                                     isDraggingDevice, draggedDeviceId, dragOrigin, savedViews, savedAt,
                                     nPanMoves, nWheel, nWrites>>
              ELSE UNCHANGED <<simulation, props, localStorage, dimensions, layoutType, viewport, panState,
                               dragState, store, savedViews, lastDrag, savedAt, counters>>
       ELSE IF isDragging
              THEN /\ nPanMoves' = Min(nPanMoves + 1, MaxPanMoves)
                   /\ pan' = [x |-> lastPan.x + (p.x - dragStart.x) * 1000,
                              y |-> lastPan.y + (p.y - dragStart.y) * 1000]
                   /\ UNCHANGED <<simulation, props, localStorage, dimensions, layoutType, zoom, panState,
                                  dragState, store, savedViews, lastDrag, savedAt,
                                  nDeviceMoves, nWheel, nWrites>>
              ELSE UNCHANGED <<simulation, props, localStorage, dimensions, layoutType, viewport, panState,
                               dragState, store, savedViews, lastDrag, savedAt, counters>>

handleMouseUpPanOnly ==
  /\ isDragging' = FALSE
  /\ lastOp' = Op("mouseUp", <<>>, "none", FALSE, "")
  /\ UNCHANGED <<simulation, props, localStorage, dimensions, layoutType, viewport, dragStart, lastPan,
                 dragState, store, savedViews, lastDrag, savedAt, counters>>

\* onMouseUp and onMouseLeave
handleMouseUp ==
  /\ isDragging' = FALSE
  /\ isDraggingDevice' = FALSE
  /\ draggedDeviceId' = NoDevice
  /\ dragOrigin' = NoOrigin
  /\ lastOp' = Op("mouseUp", <<>>, "none", FALSE, "")
  /\ UNCHANGED <<simulation, props, localStorage, dimensions, layoutType, viewport, dragStart, lastPan,
                 deviceDragStart, store, savedViews, lastDrag, savedAt, counters>>

\* the onClick of the device circle (guarded by the rendered isDraggingDevice)
\* and of the device icon (unguarded)
ClickSelects(onIcon, draggingAtClick) == onIcon \/ ~draggingAtClick

\* the button is released over the device it was pressed on: the mouseup
\* bubbles to handleMouseUp, the component renders, then the browser
\* dispatches click to the circle or to the icon
ClickDevice(id, onIcon) ==
  /\ isDraggingDevice /\ draggedDeviceId = id
  /\ id \in Ids(devices) /\ id \in DOMAIN devicePositions
  /\ isDragging' = FALSE
  /\ isDraggingDevice' = FALSE
  /\ draggedDeviceId' = NoDevice
  /\ dragOrigin' = NoOrigin
  /\ selectedDevice' = IF ClickSelects(onIcon, FALSE) THEN id ELSE selectedDevice
  /\ lastOp' = ClickOp(id, ClickSelects(onIcon, FALSE))
  /\ UNCHANGED <<simulation, devices, links, venueId, localStorage, dimensions, layoutType, viewport,
                 dragStart, lastPan, deviceDragStart, store, savedViews, lastDrag, savedAt, counters>>

handleWheelUnclamped(delta) ==
  /\ nWheel' = Min(nWheel + 1, MaxWheel)
  /\ zoom' = (zoom * delta) \div 1000
  /\ dragOrigin' = IF isDraggingDevice THEN [dragOrigin EXCEPT !.zoom = 0] ELSE dragOrigin
  /\ lastOp' = Op("wheel", <<>>, "none", FALSE, "")
  /\ UNCHANGED <<simulation, props, localStorage, dimensions, layoutType, pan, panState, isDraggingDevice,
                 draggedDeviceId, deviceDragStart, store, savedViews, lastDrag, savedAt,
                 nDeviceMoves, nPanMoves, nWrites>>

\* delta is 0.9 for deltaY > 0 and 1.1 otherwise; nWheel counts the wheel
\* events up to MaxWheel
handleWheel(delta) ==
  /\ nWheel' = Min(nWheel + 1, MaxWheel)
  /\ zoom' = Max(100, Min(5000, (zoom * delta) \div 1000))
  /\ dragOrigin' = IF isDraggingDevice THEN [dragOrigin EXCEPT !.zoom = 0] ELSE dragOrigin
  /\ lastOp' = Op("wheel", <<>>, "none", FALSE, "")
  /\ UNCHANGED <<simulation, props, localStorage, dimensions, layoutType, pan, panState, isDraggingDevice,
                 draggedDeviceId, deviceDragStart, store, savedViews, lastDrag, savedAt,
                 nDeviceMoves, nPanMoves, nWrites>>

\* what saveView stores under the name: copies of the rendered state
CurrentView ==
  [positions |-> devicePositions, layout |-> layoutType,
   manuallyPositioned |-> manuallyPositionedDevices]

saveViewWithoutVenueCheck(cancelled, text) ==
  IF ~cancelled /\ Len(text) > 0 /\ Len(Trim(text)) > 0
    THEN LET newViews == ViewSet(savedViews, Trim(text), CurrentView)
         IN /\ nWrites < MaxStorageWrites
            /\ nWrites' = nWrites + 1
            /\ savedViews' = newViews
            /\ localStorage' = [v \in Venues |-> IF v = venueId THEN JsonItem(ToViewsArray(newViews))
                                                 ELSE localStorage[v]]
            /\ lastOp' = SaveOp(Trim(text), text)
            /\ UNCHANGED <<simulation, props, dimensions, layoutType, viewport, panState, dragState,
                           store, lastDrag, savedAt, nDeviceMoves, nPanMoves, nWheel>>
    ELSE /\ lastOp' = Op("saveView", <<>>, "prompt", FALSE, "")
         /\ UNCHANGED <<simulation, props, localStorage, dimensions, layoutType, viewport, panState,
                        dragState, store, savedViews, lastDrag, savedAt, counters>>

\* saveView; answer is what prompt() returns (cancelled = null)
saveView(cancelled, text) ==
  IF venueId = NoVenue
    THEN /\ lastOp' = Op("saveView", <<>>, "none", FALSE, "No venue selected. Cannot save view.")
         /\ UNCHANGED <<simulation, props, localStorage, dimensions, layoutType, viewport, panState, dragState,
                        store, savedViews, lastDrag, savedAt, counters>>
    ELSE IF ~cancelled /\ Len(text) > 0 /\ Len(Trim(text)) > 0
      THEN LET newViews == ViewSet(savedViews, Trim(text), CurrentView)
           IN /\ nWrites < MaxStorageWrites
              /\ nWrites' = nWrites + 1
              /\ savedViews' = newViews
              /\ localStorage' = [localStorage EXCEPT ![venueId] = JsonItem(ToViewsArray(newViews))]
              /\ lastOp' = SaveOp(Trim(text), text)
              /\ savedAt' = [savedAt EXCEPT ![<<venueId, Trim(text)>>] =
                               [saved |-> TRUE, devices |-> devices, dimensions |-> dimensions,
                                layout |-> layoutType, positions |-> devicePositions,
                                manuallyPositioned |-> manuallyPositionedDevices]]
              /\ UNCHANGED <<simulation, props, dimensions, layoutType, viewport, panState, dragState,
                             store, lastDrag, nDeviceMoves, nPanMoves, nWheel>>
      ELSE /\ lastOp' = Op("saveView", <<>>, "prompt", FALSE, "")
           /\ UNCHANGED <<simulation, props, localStorage, dimensions, layoutType, viewport, panState,
                          dragState, store, savedViews, lastDrag, savedAt, counters>>

loadViewClearingOnMiss(viewName, seed) ==
  /\ devicePositions' = IF viewName \in Names(savedViews)
                          THEN ViewGet(savedViews, viewName).positions ELSE EmptyMap
  /\ layoutType' = IF viewName \in Names(savedViews)
                     THEN ViewGet(savedViews, viewName).layout ELSE layoutType
  /\ manuallyPositionedDevices' = IF viewName \in Names(savedViews)
                                    THEN ViewGet(savedViews, viewName).manuallyPositioned ELSE {}
  /\ lastOp' = Op("loadView", viewName, "none", FALSE,
                  IF viewName \in Names(savedViews) THEN "loaded successfully" ELSE "")
  /\ lastDrag' = EmptyMap
  /\ UNCHANGED <<simulation, props, localStorage, dimensions, viewport, panState, dragState,
                 savedViews, savedAt, counters>>

\* loadView, then the layout effect when the loaded layout type differs
loadView(viewName, seed) ==
  IF viewName \in Names(savedViews)
    THEN LET view == ViewGet(savedViews, viewName)
         IN /\ layoutType' = view.layout
            /\ manuallyPositionedDevices' = view.manuallyPositioned
            /\ devicePositions' =
                 IF view.layout # layoutType
                   THEN calculateLayout(view.layout, devices, links, dimensions,
                                        view.manuallyPositioned, view.positions, seed)
                   ELSE view.positions
            /\ lastOp' = Op("loadView", viewName, "none", FALSE, "loaded successfully")
            /\ lastDrag' = EmptyMap
            /\ UNCHANGED <<simulation, props, localStorage, dimensions, viewport, panState, dragState,
                           savedViews, savedAt, counters>>
    ELSE /\ lastOp' = Op("loadView", viewName, "none", FALSE, "")
         /\ UNCHANGED <<simulation, props, localStorage, dimensions, layoutType, viewport, panState,
                        dragState, store, savedViews, lastDrag, savedAt, counters>>

\* deleteView; answer is what confirm() returns
deleteView(viewName, answer) ==
  IF venueId = NoVenue
    THEN /\ lastOp' = Op("deleteView", viewName, "none", FALSE, "")
         /\ UNCHANGED <<simulation, props, localStorage, dimensions, layoutType, viewport, panState, dragState,
                        store, savedViews, lastDrag, savedAt, counters>>
    ELSE IF answer
      THEN LET newViews == ViewDelete(savedViews, viewName)
           IN /\ nWrites < MaxStorageWrites
              /\ nWrites' = nWrites + 1
              /\ savedViews' = newViews
              /\ localStorage' = [localStorage EXCEPT ![venueId] = JsonItem(ToViewsArray(newViews))]
              /\ lastOp' = Op("deleteView", viewName, "confirm", TRUE, "")
              /\ savedAt' = [savedAt EXCEPT ![<<venueId, viewName>>] = NoSnapshot]
              /\ UNCHANGED <<simulation, props, dimensions, layoutType, viewport, panState, dragState,
                             store, lastDrag, nDeviceMoves, nPanMoves, nWheel>>
      ELSE /\ lastOp' = Op("deleteView", viewName, "confirm", FALSE, "")
           /\ UNCHANGED <<simulation, props, localStorage, dimensions, layoutType, viewport, panState,
                          dragState, store, savedViews, lastDrag, savedAt, counters>>

\* resetView: calculateLayout still reads the manual set and the positions of
\* the render the handler belongs to; layoutType is unchanged, so no effect runs
resetView(seed) ==
  /\ zoom' = 1000
  /\ pan' = [x |-> 0, y |-> 0]
  /\ manuallyPositionedDevices' = {}
  /\ devicePositions' = calculateLayout(layoutType, devices, links, dimensions,
                                         manuallyPositionedDevices, devicePositions, seed)
  /\ lastOp' = Op("resetView", <<>>, "none", FALSE, "")
  /\ lastDrag' = EmptyMap
  /\ UNCHANGED <<simulation, props, localStorage, dimensions, layoutType, panState, dragState,
                 savedViews, savedAt, counters>>

changeLayoutIgnoringAnswer(newLayout, answer, seed) ==
  /\ newLayout # layoutType
  /\ layoutType' = newLayout
  /\ manuallyPositionedDevices' = {}
  /\ devicePositions' = calculateLayout(newLayout, devices, links, dimensions, {}, devicePositions, seed)
  /\ lastOp' = Op("changeLayout", <<newLayout>>,
                  IF Cardinality(manuallyPositionedDevices) > 0 THEN "confirm" ELSE "none",
                  Cardinality(manuallyPositionedDevices) > 0 /\ answer, "")
  /\ lastDrag' = EmptyMap
  /\ UNCHANGED <<simulation, props, localStorage, dimensions, viewport, panState, dragState,
                 savedViews, savedAt, counters>>

changeLayoutWithoutEffect(newLayout, answer, seed) ==
  /\ newLayout # layoutType
  /\ IF Cardinality(manuallyPositionedDevices) > 0 /\ ~answer
       THEN /\ lastOp' = Op("changeLayout", <<>>, "confirm", FALSE, "")
            /\ UNCHANGED <<simulation, props, localStorage, dimensions, layoutType, viewport, panState,
                           dragState, store, savedViews, lastDrag, savedAt, counters>>
       ELSE /\ layoutType' = newLayout
            /\ manuallyPositionedDevices' = {}
            /\ devicePositions' = calculateLayout(newLayout, devices, links, dimensions,
                                                   manuallyPositionedDevices, devicePositions, seed)
            /\ lastOp' = Op("changeLayout", <<newLayout>>,
                            IF Cardinality(manuallyPositionedDevices) > 0 THEN "confirm" ELSE "none",
                            Cardinality(manuallyPositionedDevices) > 0, "")
            /\ lastDrag' = EmptyMap
            /\ UNCHANGED <<simulation, props, localStorage, dimensions, viewport, panState, dragState,
                           savedViews, savedAt, counters>>

\* onChange of the layout <select>, then the layout effect of the next render,
\* which reads the emptied manual set
changeLayout(newLayout, answer, seed) ==
  /\ newLayout # layoutType
  /\ IF Cardinality(manuallyPositionedDevices) > 0 /\ ~answer
       THEN /\ lastOp' = Op("changeLayout", <<>>, "confirm", FALSE, "")
            /\ UNCHANGED <<simulation, props, localStorage, dimensions, layoutType, viewport, panState,
                           dragState, store, savedViews, lastDrag, savedAt, counters>>
       ELSE LET newPositions == calculateLayout(newLayout, devices, links, dimensions,
                                                manuallyPositionedDevices, devicePositions, seed)
            IN /\ layoutType' = newLayout
               /\ manuallyPositionedDevices' = {}
               /\ devicePositions' = calculateLayout(newLayout, devices, links, dimensions,
                                                      {}, newPositions, seed)
               /\ lastOp' = Op("changeLayout", <<newLayout>>,
                               IF Cardinality(manuallyPositionedDevices) > 0 THEN "confirm" ELSE "none",
                               Cardinality(manuallyPositionedDevices) > 0, "")
               /\ lastDrag' = EmptyMap
               /\ UNCHANGED <<simulation, props, localStorage, dimensions, viewport, panState, dragState,
                              savedViews, savedAt, counters>>

\* the layout effect enters case 'force-directed': "Initialize random positions"
ForceStart(seed) ==
  /\ layoutType = "force-directed"
  /\ Len(devices) > 0
  /\ ~simulation.running
  /\ simulation' = [running |-> TRUE, i |-> 0,
                    positions |-> InitialPositions(devices, dimensions, seed),
                    repulsion |-> <<>>, attraction |-> <<>>]
  /\ lastOp' = Op("forceStart", <<>>, "none", FALSE, "")
  /\ UNCHANGED <<props, localStorage, dimensions, layoutType, viewport, panState, dragState,
                 store, savedViews, lastDrag, savedAt, counters>>

ForceIterationUnbounded ==
  /\ simulation.running
  /\ LET pass == ForceIterate(simulation.positions, devices, links, dimensions)
     IN simulation' = [running |-> TRUE, i |-> simulation.i + 1,
                       positions |-> pass.positions,
                       repulsion |-> pass.repulsion, attraction |-> pass.attraction]
  /\ lastOp' = Op("forceIteration", <<>>, "none", FALSE, "")
  /\ UNCHANGED <<props, localStorage, dimensions, layoutType, viewport, panState, dragState,
                 store, savedViews, lastDrag, savedAt, counters>>

\* one pass of the simulation loop
ForceIteration ==
  /\ simulation.running
  /\ simulation.i < iterations
  /\ LET pass == ForceIterate(simulation.positions, devices, links, dimensions)
     IN simulation' = [running |-> TRUE, i |-> simulation.i + 1,
                       positions |-> pass.positions,
                       repulsion |-> pass.repulsion, attraction |-> pass.attraction]
  /\ lastOp' = Op("forceIteration", <<>>, "none", FALSE, "")
  /\ UNCHANGED <<props, localStorage, dimensions, layoutType, viewport, panState, dragState,
                 store, savedViews, lastDrag, savedAt, counters>>

\* the loop is left, manual positions are written over the result and the
\* effect stores the map
ForceFinish ==
  /\ simulation.running
  /\ simulation.i >= iterations
  /\ simulation' = [simulation EXCEPT !.running = FALSE]
  /\ devicePositions' = PreserveManual(ToStore(simulation.positions),
                                       manuallyPositionedDevices, devicePositions)
  /\ lastOp' = Op("layoutEffect", <<>>, "none", FALSE, "")
  /\ UNCHANGED <<props, localStorage, dimensions, layoutType, viewport, panState, dragState,
                 manuallyPositionedDevices, savedViews, lastDrag, savedAt, counters>>

\* the beforeunload listener: TRUE when it sets e.returnValue, which makes the
\* browser ask before the page is left
handleBeforeUnload == Cardinality(manuallyPositionedDevices) > 0

\* every event of the component
Next ==
  \/ \E t \in Topologies, seed \in SeedsFor(layoutType) : Refresh(t.devices, t.links, seed)
  \/ \E dims \in DimensionChoices, seed \in SeedsFor(layoutType) : Resize(dims, seed)
  \/ \E seed \in SeedsFor(layoutType) : layoutEffect(seed)
  \/ \E v \in Venues \cup {NoVenue} : SetVenue(v)
  \/ \E p \in ClientPoints : MouseDownCanvas(p)
  \/ \E id \in DeviceIds, p \in ClientPoints : MouseDownDevice(id, p)
  \/ \E p \in ClientPoints : MoveBudget(MaxDeviceMoves) /\ handleMouseMove(p)
  \/ handleMouseUp
  \/ \E id \in DeviceIds, onIcon \in BOOLEAN : ClickDevice(id, onIcon)
  \/ \E delta \in {900, 1100} : nWheel < MaxWheel /\ handleWheel(delta)
  \/ \E cancelled \in BOOLEAN : \E text \in TextsFor(cancelled) : saveView(cancelled, text)
  \/ \E viewName \in ViewNames : \E seed \in SeedsForView(savedViews, viewName) : loadView(viewName, seed)
  \/ \E viewName \in ViewNames, answer \in BOOLEAN : deleteView(viewName, answer)
  \/ \E seed \in SeedsFor(layoutType) : resetView(seed)
  \/ \E newLayout \in LayoutTypes : \E answer \in AnswersFor(manuallyPositionedDevices), seed \in SeedsFor(newLayout) :
        changeLayout(newLayout, answer, seed)

Spec == Init /\ [][Next]_vars

\* the layout engine and the coordinate store: refreshes, resizes, device
\* drags, reset and layout switches (no pan or zoom, no saved views)
LayoutTopologies == {t \in Topologies : t.devices \in {<<>>, <<dS, dA>>}}

NextLayout ==
  \/ \E t \in LayoutTopologies, seed \in SeedsFor(layoutType) : Refresh(t.devices, t.links, seed)
  \/ \E dims \in DimensionChoices, seed \in SeedsFor(layoutType) : Resize(dims, seed)
  \/ \E id \in DeviceIds, p \in ClientPoints : MouseDownDevice(id, p)
  \/ \E p \in ClientPoints : MoveBudget(MaxDeviceMoves) /\ handleMouseMove(p)
  \/ handleMouseUp
  \/ \E seed \in SeedsFor(layoutType) : resetView(seed)
  \/ \E newLayout \in {"circle", "grid", "force-directed"} : \E answer \in AnswersFor(manuallyPositionedDevices),
        seed \in SeedsFor(newLayout) : changeLayout(newLayout, answer, seed)

SpecLayout == Init /\ [][NextLayout]_vars

\* pointer gestures (canvas pan, drag of the access point), zoom and layout
\* switches on one topology
InteractionTopologies == {t \in Topologies : t.devices = <<dS, dA>>}

NextInteraction ==
  \/ \E t \in InteractionTopologies, seed \in SeedsFor(layoutType) : Refresh(t.devices, t.links, seed)
  \/ \E p \in ClientPoints : MouseDownCanvas(p)
  \/ \E id \in {"a1"}, p \in ClientPoints : MouseDownDevice(id, p)
  \/ \E p \in ClientPoints : MoveBudget(MaxDeviceMoves) /\ handleMouseMove(p)
  \/ handleMouseUp
  \/ \E delta \in {900, 1100} : nWheel < MaxWheel /\ handleWheel(delta)
  \/ \E newLayout \in {"grid"} : \E answer \in AnswersFor(manuallyPositionedDevices),
        seed \in SeedsFor(newLayout) : changeLayout(newLayout, answer, seed)

SpecInteraction == Init /\ [][NextInteraction]_vars

\* saved views: venue changes, save, load, delete and layout switches.  The
\* view starts with two devices shown and a1 dragged by (50, 0), the state
\* after Refresh, MouseDownDevice("a1"), handleMouseMove and handleMouseUp.
DraggedA1 ==
  LET laidOut == HierarchicalLayout(<<dS, dA>>, [width |-> 800, height |-> 600])
  IN PosSet(laidOut, "a1", [x |-> laidOut["a1"].x + 50000, y |-> laidOut["a1"].y])

InitViews ==
  /\ devices = <<dS, dA>>
  /\ links = <<Link("a1", "s1")>>
  /\ venueId = NoVenue
  /\ selectedDevice = NoDevice
  /\ localStorage = [v \in Venues |-> IF v = "v2" THEN CorruptItem ELSE NullItem]
  /\ dimensions = [width |-> 800, height |-> 600]
  /\ layoutType = "hierarchical"
  /\ zoom = 1000
  /\ pan = [x |-> 0, y |-> 0]
  /\ isDragging = FALSE
  /\ dragStart = [x |-> 0, y |-> 0]
  /\ lastPan = [x |-> 0, y |-> 0]
  /\ isDraggingDevice = FALSE
  /\ draggedDeviceId = NoDevice
  /\ deviceDragStart = [x |-> 50, y |-> 0]
  /\ devicePositions = DraggedA1
  /\ manuallyPositionedDevices = {"a1"}
  /\ savedViews = <<>>
  /\ lastOp = Op("mouseUp", <<>>, "none", FALSE, "")
  /\ lastDrag = [id \in {"a1"} |-> DraggedA1["a1"]]
  /\ dragOrigin = NoOrigin
  /\ savedAt = [k \in Venues \X ViewNames |-> NoSnapshot]
  /\ nDeviceMoves = 1
  /\ nPanMoves = 0
  /\ nWheel = 0
  /\ nWrites = 0
  /\ simulation = NoSimulation

NextViews ==
  \/ \E v \in Venues \cup {NoVenue} : SetVenue(v)
  \/ \E cancelled \in BOOLEAN : \E text \in TextsFor(cancelled) : saveView(cancelled, text)
  \/ \E viewName \in ViewNames : \E seed \in SeedsForView(savedViews, viewName) : loadView(viewName, seed)
  \/ \E viewName \in ViewNames, answer \in BOOLEAN : deleteView(viewName, answer)
  \/ \E newLayout \in {"grid", "force-directed"} : \E answer \in AnswersFor(manuallyPositionedDevices),
        seed \in SeedsFor(newLayout) : changeLayout(newLayout, answer, seed)

SpecViews == InitViews /\ [][NextViews]_vars

\* device drags of up to MaxDragMoves moves at zoom 1, 0.9 and 1.1
NextDrag ==
  \/ \E t \in InteractionTopologies, seed \in SeedsFor(layoutType) : Refresh(t.devices, t.links, seed)
  \/ \E id \in DeviceIds, p \in ClientPoints : MouseDownDevice(id, p)
  \/ \E p \in ClientPoints : MoveBudget(MaxDragMoves) /\ handleMouseMove(p)
  \/ handleMouseUp
  \/ \E delta \in {900, 1100} : nWheel < MaxWheel /\ handleWheel(delta)

SpecDrag == Init /\ [][NextDrag]_vars

\* selection: presses, drags, releases and clicks on one topology
NextSelect ==
  \/ \E t \in InteractionTopologies, seed \in SeedsFor(layoutType) : Refresh(t.devices, t.links, seed)
  \/ \E p \in ClientPoints : MouseDownCanvas(p)
  \/ \E id \in DeviceIds, p \in ClientPoints : MouseDownDevice(id, p)
  \/ \E p \in ClientPoints : MoveBudget(MaxDeviceMoves) /\ handleMouseMove(p)
  \/ handleMouseUp
  \/ \E id \in DeviceIds, onIcon \in BOOLEAN : ClickDevice(id, onIcon)

SpecSelect == Init /\ [][NextSelect]_vars

\* refreshes among all topologies while devices are dragged
NextRefresh ==
  \/ \E t \in Topologies, seed \in SeedsFor(layoutType) : Refresh(t.devices, t.links, seed)
  \/ \E id \in DeviceIds, p \in ClientPoints : MouseDownDevice(id, p)
  \/ \E p \in ClientPoints : MoveBudget(MaxDragMoves) /\ handleMouseMove(p)
  \/ handleMouseUp

SpecRefresh == Init /\ [][NextRefresh]_vars

\* the viewport transform alone: wheel events without limit, and resets
NextZoom ==
  \/ \E delta \in {900, 1100} : handleWheel(delta)
  \/ \E seed \in SeedsFor(layoutType) : resetView(seed)

SpecZoom == Init /\ [][NextZoom]_vars

----------------------------------------------------------------------------
(* calculateLayout as a function: the inputs are drawn by InitCalc and the  *)
(* layout effect applies it.                                                *)

\* positions a drag or a loaded view may have left in the store
StoredPoints == { [x |-> 123000, y |-> 77000], [x |-> 640000, y |-> 480000] }

StoredMaps == UNION { [S -> StoredPoints] : S \in SUBSET DeviceIds }

InitCalc ==
  /\ \E t \in Topologies : devices = t.devices /\ links = t.links
  /\ venueId = NoVenue
  /\ selectedDevice = NoDevice
  /\ localStorage = [v \in Venues |-> IF v = "v2" THEN CorruptItem ELSE NullItem]
  /\ dimensions \in DimensionChoices
  /\ layoutType \in LayoutTypes
  /\ zoom = 1000
  /\ pan = [x |-> 0, y |-> 0]
  /\ isDragging = FALSE
  /\ dragStart = [x |-> 0, y |-> 0]
  /\ lastPan = [x |-> 0, y |-> 0]
  /\ isDraggingDevice = FALSE
  /\ draggedDeviceId = NoDevice
  /\ deviceDragStart = [x |-> 0, y |-> 0]
  /\ devicePositions \in StoredMaps
  /\ manuallyPositionedDevices \in SUBSET DeviceIds
  /\ savedViews = <<>>
  /\ lastOp = Op("mount", <<>>, "none", FALSE, "")
  /\ lastDrag = EmptyMap
  /\ dragOrigin = NoOrigin
  /\ savedAt = [k \in Venues \X ViewNames |-> NoSnapshot]
  /\ nDeviceMoves = 0
  /\ nPanMoves = 0
  /\ nWheel = 0
  /\ nWrites = 0
  /\ simulation = NoSimulation

NextCalc == \E seed \in SeedsFor(layoutType) : layoutEffect(seed)

SpecCalc == InitCalc /\ [][NextCalc]_vars

\* the force-directed case of the layout effect, one pass of its loop at a
\* time, over every non-empty topology, both viewport sizes and both seeds;
\* the access point may have been dragged out of the margin box before
DraggedOut == [id \in {"a1"} |-> [x |-> 10000, y |-> 10000]]

InitForce ==
  /\ \E t \in Topologies : Len(t.devices) > 0 /\ devices = t.devices /\ links = t.links
  /\ venueId = NoVenue
  /\ selectedDevice = NoDevice
  /\ localStorage = [v \in Venues |-> IF v = "v2" THEN CorruptItem ELSE NullItem]
  /\ dimensions \in DimensionChoices
  /\ layoutType = "force-directed"
  /\ zoom = 1000
  /\ pan = [x |-> 0, y |-> 0]
  /\ isDragging = FALSE
  /\ dragStart = [x |-> 0, y |-> 0]
  /\ lastPan = [x |-> 0, y |-> 0]
  /\ isDraggingDevice = FALSE
  /\ draggedDeviceId = NoDevice
  /\ deviceDragStart = [x |-> 0, y |-> 0]
  /\ devicePositions \in {EmptyMap, DraggedOut}
  /\ manuallyPositionedDevices = DOMAIN devicePositions
  /\ savedViews = <<>>
  /\ lastOp = Op("mount", <<>>, "none", FALSE, "")
  /\ lastDrag = EmptyMap
  /\ dragOrigin = NoOrigin
  /\ savedAt = [k \in Venues \X ViewNames |-> NoSnapshot]
  /\ nDeviceMoves = 0
  /\ nPanMoves = 0
  /\ nWheel = 0
  /\ nWrites = 0
  /\ simulation = NoSimulation

NextForce ==
  \/ \E seed \in RandomSeeds : ForceStart(seed)
  \/ ForceIteration
  \/ ForceFinish

SpecForce == InitForce /\ [][NextForce]_vars

\* C1: with no device flagged manual, the map calculateLayout returns has, for
\* every layout type and every device list with unique ids (the empty one
\* included), exactly the ids of the devices as its keys
LayoutCoversDevices ==
  (lastOp.kind = "layoutEffect" /\ manuallyPositionedDevices = {})
    => DOMAIN devicePositions = Ids(devices)

\* C2: a device of the current set that is flagged manual and has a stored
\* position keeps exactly that position in the map calculateLayout returns,
\* for every layout type
ManualOverrideWins ==
  [][lastOp'.kind = "layoutEffect"
       => \A id \in (Ids(devices) \cap manuallyPositionedDevices) \cap DOMAIN devicePositions :
             id \in DOMAIN devicePositions' /\ devicePositions'[id] = devicePositions[id]]_vars

ManualOverrideWinsWitness ==
  /\ lastOp.kind = "layoutEffect"
  /\ layoutType = "grid"
  /\ devices = <<dS, dA, dR>>
  /\ manuallyPositionedDevices = {"a1"}
  /\ devicePositions["a1"] = [x |-> 123000, y |-> 77000]
  /\ devicePositions["s1"] = GridLayout(devices, dimensions)["s1"]

\* C18: the tree layout without manual overrides places the first switch of
\* the list, and no other device, at the viewport centre; without any switch
\* it gives the circle layout of the same devices and viewport
TreePinsFirstSwitch ==
  (lastOp.kind = "layoutEffect" /\ layoutType = "tree" /\ manuallyPositionedDevices = {})
    => LET centre == [x |-> dimensions.width * 500, y |-> dimensions.height * 500]
           atCentre == {id \in DOMAIN devicePositions : devicePositions[id] = centre}
           firstSwitch == {devices[i].id : i \in {j \in 1..Len(devices) :
                              /\ devices[j].type = "switch"
                              /\ \A k \in 1..(j - 1) : devices[k].type # "switch"}}
       IN IF firstSwitch # {} THEN atCentre = firstSwitch
          ELSE devicePositions = CircleLayout(devices, dimensions)

TreePinsFirstSwitchWitness ==
  /\ lastOp.kind = "layoutEffect"
  /\ layoutType = "tree"
  /\ manuallyPositionedDevices = {}
  /\ devices = <<dS, dS2, dA>>
  /\ dimensions = [width |-> 1000, height |-> 600]
  /\ devicePositions["s1"] = [x |-> 500000, y |-> 300000]
  /\ devicePositions["a1"] = [x |-> 650000, y |-> 300000]

\* the devices of the given types, in list order
Tier(types) == SelectSeq(devices, LAMBDA d : d.type \in types)

\* a tier of one device is centred; a tier of m >= 2 devices is spread evenly
\* from the left margin to the right margin
TierSpread(tier) ==
  \A i \in 1..Len(tier) :
    /\ tier[i].id \in DOMAIN devicePositions
    /\ IF Len(tier) = 1
         THEN devicePositions[tier[i].id].x = dimensions.width * 500
         ELSE devicePositions[tier[i].id].x * (Len(tier) - 1) =
                margin * 1000 * (Len(tier) - 1) + (i - 1) * (dimensions.width - 2 * margin) * 1000

\* C19: in the hierarchical layout a tier with one device centres it
\* horizontally, a tier with m >= 2 devices spreads them evenly between the
\* margins, and an empty tier adds no position
TiersCentredOrSpread ==
  (lastOp.kind = "layoutEffect" /\ layoutType = "hierarchical" /\ manuallyPositionedDevices = {})
    => /\ DOMAIN devicePositions = Ids(devices)
       /\ TierSpread(Tier({"switch"}))
       /\ TierSpread(Tier({"ap"}))
       /\ TierSpread(Tier({"router", "unknown"}))

\* C20: the grid layout puts device i (from 0, in list order) into row
\* floor(i / c) and column i mod c of a grid of c = ceil(sqrt(n)) columns, and
\* uses ceil(n / c) distinct rows
GridRowMajor ==
  (lastOp.kind = "layoutEffect" /\ layoutType = "grid" /\ manuallyPositionedDevices = {}
     /\ Len(devices) >= 1)
    => LET n == Len(devices)
           c == CHOOSE k \in 1..n : k * k >= n /\ (k - 1) * (k - 1) < n
           r == CHOOSE k \in 1..n : k * c >= n /\ (k - 1) * c < n
           w == (dimensions.width - 2 * margin) * 1000
           h == (dimensions.height - 2 * margin) * 1000
           pos(i) == devicePositions[devices[i + 1].id]
       IN /\ \A i \in 0..(n - 1) :
                /\ (i % c) * w <= (pos(i).x - margin * 1000) * c
                /\ (pos(i).x - margin * 1000) * c < ((i % c) + 1) * w
                /\ (i \div c) * h <= (pos(i).y - margin * 1000) * r
                /\ (pos(i).y - margin * 1000) * r < ((i \div c) + 1) * h
          /\ Cardinality({pos(i).y : i \in 0..(n - 1)}) = r

GridRowMajorWitness ==
  /\ lastOp.kind = "layoutEffect"
  /\ layoutType = "grid"
  /\ manuallyPositionedDevices = {}
  /\ devices = <<dS, dA, dR>>
  /\ dimensions = [width |-> 800, height |-> 600]
  /\ devicePositions["a1"] = [x |-> 575000, y |-> 175000]
  /\ devicePositions["r1"] = [x |-> 225000, y |-> 425000]

----------------------------------------------------------------------------
(* Coordinate store across refreshes, layout switches and reset *)

LayoutRecomputes == {"refresh", "resize", "layoutEffect"}

\* C3: across device/link refreshes and resizes (no layout switch, reset or
\* load in between) every device that is flagged manual and is in the device
\* set keeps the position of its last drag, and the manual set is unchanged
ManualSurvivesRefresh ==
  /\ [](\A id \in (manuallyPositionedDevices \cap Ids(devices)) \cap DOMAIN lastDrag :
           id \in DOMAIN devicePositions /\ devicePositions[id] = lastDrag[id])
  /\ [][lastOp'.kind \in LayoutRecomputes => manuallyPositionedDevices' = manuallyPositionedDevices]_vars

\* C16: after a refresh of the device set the position map has an entry for
\* exactly the devices of the new set (a manually placed device that left the
\* set has none), and every device that is not manual sits where the layout
\* algorithm puts it
RefreshTracksDevices ==
  lastOp.kind = "refresh" =>
    /\ DOMAIN devicePositions = Ids(devices)
    /\ \A id \in Ids(devices) \ manuallyPositionedDevices :
          devicePositions[id] = AlgorithmicLayout(layoutType, devices, links, dimensions, 0)[id]

\* C17: a pointer move while the drag state names no device of the current
\* device set changes neither the position map nor the manual set
StaleDragIgnored ==
  [][(lastOp'.kind = "mouseMove" /\ draggedDeviceId \notin Ids(devices))
       => UNCHANGED <<devicePositions, manuallyPositionedDevices>>]_vars

\* C5: a layout switch that the user declines changes neither the layout type,
\* nor the positions, nor the manual set, nor zoom and pan
DeclinedSwitchChangesNothing ==
  [][(lastOp'.kind = "changeLayout" /\ lastOp'.asked = "confirm" /\ ~lastOp'.answer)
       => UNCHANGED <<layoutType, devicePositions, manuallyPositionedDevices, zoom, pan>>]_vars

DeclinedSwitchWitness ==
  /\ lastOp.kind = "changeLayout"
  /\ lastOp.asked = "confirm"
  /\ ~lastOp.answer
  /\ manuallyPositionedDevices = {"a1"}
  /\ devicePositions["a1"] # HierarchicalLayout(devices, dimensions)["a1"]
  /\ layoutType = "hierarchical"
  /\ zoom = 1100
  /\ pan = [x |-> 50000, y |-> 0]

\* a manual placement is discarded: a flag is dropped, or a flagged device
\* loses the position it was dragged to
DiscardsManual ==
  \E id \in manuallyPositionedDevices :
    \/ id \notin manuallyPositionedDevices'
    \/ /\ id \in DOMAIN devicePositions
       /\ (id \notin DOMAIN devicePositions' \/ devicePositions'[id] # devicePositions[id])

\* C6: a layout switch, a load or a reset that discards manual placements has
\* been confirmed by the user first
DiscardNeedsConfirmation ==
  [][(lastOp'.kind \in {"changeLayout", "loadView", "resetView"} /\ DiscardsManual)
       => (lastOp'.asked = "confirm" /\ lastOp'.answer)]_vars

\* C7: after reset zoom is 1, pan is (0,0), no device is manual and every
\* device sits where the current (deterministic) layout algorithm puts it
ResetRecalculates ==
  lastOp.kind = "resetView" =>
    /\ zoom = 1000
    /\ pan = [x |-> 0, y |-> 0]
    /\ manuallyPositionedDevices = {}
    /\ layoutType # "force-directed" =>
         devicePositions = IF Len(devices) = 0 THEN EmptyMap
                           ELSE AlgorithmicLayout(layoutType, devices, links, dimensions, 0)

----------------------------------------------------------------------------
(* Viewport transform and pointer gestures *)

\* C11: the zoom factor stays within [0.1, 5.0] under any sequence of wheel
\* events and resets
ZoomInRange == 100 <= zoom /\ zoom <= 5000

ZoomInRangeWitness == lastOp.kind = "wheel" /\ zoom = 100 /\ nWheel = MaxWheel

Abs(n) == IF n < 0 THEN -n ELSE n

\* the dragged amount (thousandths of a pixel) is the screen amount (pixels)
\* divided by the zoom z (thousandths), within `steps` roundings
Scaled(dragged, screen, z, steps) == Abs(dragged * z - screen * 1000000) <= steps * z

\* C12: a pointer move during a device drag moves the dragged device by the
\* screen delta since the previous pointer event divided by the zoom and flags
\* it manual; no other position changes; at constant zoom the displacement
\* since the mouse-down is the screen displacement divided by the zoom
DragFollowsPointer ==
  [][(lastOp'.kind = "mouseMove" /\ isDraggingDevice /\ draggedDeviceId \in DOMAIN devicePositions)
       => LET B == draggedDeviceId
              before == devicePositions[B]
              after == devicePositions'[B]
              px == lastOp'.input[1]
              py == lastOp'.input[2]
          IN /\ DOMAIN devicePositions' = DOMAIN devicePositions
             /\ Scaled(after.x - before.x, px - deviceDragStart.x, zoom, 1)
             /\ Scaled(after.y - before.y, py - deviceDragStart.y, zoom, 1)
             /\ manuallyPositionedDevices' = manuallyPositionedDevices \cup {B}
             /\ \A id \in DOMAIN devicePositions \ {B} : devicePositions'[id] = devicePositions[id]
             /\ dragOrigin.zoom = zoom =>
                  /\ Scaled(after.x - dragOrigin.position.x, px - dragOrigin.pointer.x, zoom, MaxDragMoves)
                  /\ Scaled(after.y - dragOrigin.position.y, py - dragOrigin.pointer.y, zoom, MaxDragMoves)]_vars

DragFollowsPointerWitness ==
  /\ lastOp.kind = "mouseMove"
  /\ isDraggingDevice /\ draggedDeviceId = "a1"
  /\ nDeviceMoves = 2
  /\ zoom = 1100 /\ dragOrigin.zoom = 1100
  /\ dragOrigin.pointer = [x |-> 0, y |-> 0]
  /\ deviceDragStart = [x |-> 50, y |-> 0]
  /\ devicePositions["a1"].x = dragOrigin.position.x + 45454
  /\ devicePositions["s1"] = HierarchicalLayout(devices, dimensions)["s1"]
  /\ manuallyPositionedDevices = {"a1"}

\* C13: canvas pan and device drag are never active together
ModesExclusive == ~(isDragging /\ isDraggingDevice)

\* the device pressed on has been moved since the press
MovedSincePress ==
  /\ isDraggingDevice
  /\ draggedDeviceId \in DOMAIN devicePositions
  /\ devicePositions[draggedDeviceId] # dragOrigin.position

\* C14: a press and release on a device with no move in between selects the
\* device and changes neither the positions nor the manual set; a gesture that
\* moved the device does not select
ClickSelectsDragDoesNot ==
  [][lastOp'.kind = "click"
       => IF MovedSincePress
            THEN ~lastOp'.answer /\ selectedDevice' = selectedDevice
            ELSE /\ lastOp'.answer
                 /\ selectedDevice' = lastOp'.name[1]
                 /\ UNCHANGED <<devicePositions, manuallyPositionedDevices>>]_vars

\* C15: at most one device is selected; a selecting click makes the clicked
\* device the selection; a click on empty canvas (press and release with no
\* move) leaves no device selected
SingleSelection ==
  /\ [](selectedDevice = NoDevice \/ selectedDevice \in DeviceIds)
  /\ [][(lastOp'.kind = "click" /\ lastOp'.answer) => selectedDevice' = lastOp'.name[1]]_vars
  /\ [][(lastOp.kind = "mouseDownCanvas" /\ lastOp'.kind = "mouseUp")
         => selectedDevice' = NoDevice]_vars

----------------------------------------------------------------------------
(* Saved views *)

\* what the "Load saved views" effect would read for venue v
Persisted(storage, v) ==
  IF storage[v].kind = "json" THEN FromViewsArray(storage[v].views) ELSE <<>>

\* C4: loading, for the same site and with the same devices and viewport size,
\* a view saved earlier restores the layout type, the whole position map and
\* the manual set of the moment of the save
LoadReproducesSave ==
  (/\ lastOp.kind = "loadView"
   /\ lastOp.alert = "loaded successfully"
   /\ venueId # NoVenue
   /\ savedAt[<<venueId, lastOp.name>>].saved
   /\ savedAt[<<venueId, lastOp.name>>].devices = devices
   /\ savedAt[<<venueId, lastOp.name>>].dimensions = dimensions)
  => LET snapshot == savedAt[<<venueId, lastOp.name>>]
     IN /\ layoutType = snapshot.layout
        /\ devicePositions = snapshot.positions
        /\ manuallyPositionedDevices = snapshot.manuallyPositioned

\* C8: a save with no venue selected is reported and writes neither the
\* in-memory collection nor localStorage
SaveWithoutVenueRefused ==
  [][(lastOp'.kind = "saveView" /\ venueId = NoVenue)
       => /\ lastOp'.alert = "No venue selected. Cannot save view."
          /\ savedViews' = savedViews
          /\ localStorage' = localStorage]_vars

SaveWithoutVenueWitness ==
  /\ lastOp.kind = "saveView"
  /\ lastOp.alert = "No venue selected. Cannot save view."
  /\ venueId = NoVenue
  /\ Names(savedViews) = {<<"A">>}
  /\ localStorage["v1"].kind = "json"

UnknownName == lastOp'.kind \in {"loadView", "deleteView"} /\ lastOp'.name \notin Names(savedViews)

SaveOverwritesSilently ==
  [][(/\ lastOp'.kind = "saveView"
      /\ lastOp'.alert = "saved successfully"
      /\ Trim(lastOp'.input) \in Names(savedViews))
       => LET n == Trim(lastOp'.input)
              stored == Persisted(localStorage', venueId)
          IN /\ lastOp'.asked = "prompt"
             /\ Cardinality({i \in 1..Len(savedViews') : savedViews'[i].name = n}) = 1
             /\ ViewGet(savedViews', n) =
                  [name |-> n, positions |-> devicePositions, layout |-> layoutType,
                   manuallyPositioned |-> manuallyPositionedDevices]
             /\ Names(savedViews') = Names(savedViews)
             /\ \A m \in Names(savedViews) \ {n} : ViewGet(savedViews', m) = ViewGet(savedViews, m)
             /\ localStorage'[venueId].kind = "json"
             /\ stored = savedViews'
             /\ \A m \in Names(Persisted(localStorage, venueId)) \ {n} :
                   ViewGet(stored, m) = ViewGet(Persisted(localStorage, venueId), m)
             /\ \A v \in Venues \ {venueId} : localStorage'[v] = localStorage[v]]_vars

SaveOverwritesWitness ==
  /\ lastOp.kind = "saveView"
  /\ lastOp.input = <<" ", "A", " ">>
  /\ nWrites = 3
  /\ Len(savedViews) = 2
  /\ savedViews[1].name = <<"A">>
  /\ savedViews[1].layout = "grid"
  /\ savedViews[2].name = <<"B">>
  /\ savedViews[2].layout = "hierarchical"

\* C21: in every pass of the force-directed simulation the repulsion of each
\* pair of devices has magnitude k*k/distance with the one constant
\* k = sqrt(width*height/n), whatever the indexes of the pair, and the
\* attraction of each link has magnitude distance*distance/k with that same k
OneOptimalDistance ==
  LET k == kOuter(dimensions, Len(devices))
  IN /\ \A pr \in DOMAIN simulation.repulsion :
          simulation.repulsion[pr].force = (k * k) \div simulation.repulsion[pr].distance
     /\ \A l \in DOMAIN simulation.attraction :
          simulation.attraction[l].applied =>
            simulation.attraction[l].force
              = (simulation.attraction[l].distance * simulation.attraction[l].distance) \div k

InBox(p, dims, unit) ==
  /\ margin * unit <= p.x /\ p.x <= (dims.width - margin) * unit
  /\ margin * unit <= p.y /\ p.y <= (dims.height - margin) * unit

\* C22: the force-directed simulation makes exactly 100 passes and then
\* stops, whatever the devices and links (a link with a missing end or from a
\* device to itself included); after the initial placement and after every
\* pass, and in the map the run leaves behind, every device that is not
\* manual lies within the margin box of the viewport
HundredPassesInsideTheBox ==
  /\ simulation.i <= iterations
  /\ lastOp.kind = "layoutEffect" => simulation.i = iterations /\ ~simulation.running
  /\ simulation.running =>
       /\ DOMAIN simulation.positions = Ids(devices)
       /\ \A id \in Ids(devices) \ manuallyPositionedDevices :
            InBox(simulation.positions[id], dimensions, 10)
  /\ lastOp.kind = "layoutEffect" =>
       /\ Ids(devices) \subseteq DOMAIN devicePositions
       /\ \A id \in Ids(devices) \ manuallyPositionedDevices :
            InBox(devicePositions[id], dimensions, 1000)

HundredPassesWitness ==
  /\ lastOp.kind = "layoutEffect"
  /\ simulation.i = iterations
  /\ \E l \in 1..Len(links) : links[l].localDeviceId = links[l].remoteDeviceId
  /\ manuallyPositionedDevices = {"a1"}
  /\ ~InBox(devicePositions["a1"], dimensions, 1000)

\* C23: a layout switch that proceeds (confirmed, or nothing was manual) ends,
\* after its recompute, with the chosen layout type, an empty manual set and
\* every device exactly where the new algorithm puts it: no manual position
\* of before survives
SwitchAppliesNewLayout ==
  [][(lastOp'.kind = "changeLayout" /\ (lastOp'.asked = "none" \/ lastOp'.answer))
       => /\ layoutType' = lastOp'.name[1]
          /\ layoutType' # layoutType
          /\ manuallyPositionedDevices' = {}
          /\ \E seed \in SeedsFor(layoutType') :
               devicePositions' = IF Len(devices) = 0 THEN EmptyMap
                                  ELSE AlgorithmicLayout(layoutType', devices, links,
                                                         dimensions, seed)]_vars

SwitchAppliesWitness ==
  /\ lastOp.kind = "changeLayout"
  /\ lastOp.asked = "confirm"
  /\ lastOp.answer
  /\ layoutType = "grid"
  /\ devices = <<dS, dA>>
  /\ devicePositions = GridLayout(devices, dimensions)
  /\ manuallyPositionedDevices = {}

\* C24: pan and zoom never touch the coordinate store: a pointer move while
\* the canvas is being panned changes only pan, to the pan at the press plus
\* the pointer's screen delta since the press, and a wheel event in any mode
\* changes only zoom; positions, manual set, layout type and interaction
\* mode are left alone by both
ViewportLeavesStore ==
  [][/\ (lastOp'.kind = "mouseMove" /\ isDragging)
          => /\ pan' = [x |-> lastPan.x + (lastOp'.input[1] - dragStart.x) * 1000,
                        y |-> lastPan.y + (lastOp'.input[2] - dragStart.y) * 1000]
             /\ UNCHANGED <<zoom, devicePositions, manuallyPositionedDevices, layoutType,
                            isDragging, isDraggingDevice, draggedDeviceId>>
     /\ lastOp'.kind = "wheel"
          => UNCHANGED <<pan, devicePositions, manuallyPositionedDevices, layoutType,
                         isDragging, isDraggingDevice, draggedDeviceId>>]_vars

\* neither the canvas pan nor a device drag is in progress
Idle == ~isDragging /\ ~isDraggingDevice /\ draggedDeviceId = NoDevice

\* C25: a pointer-up or pointer-leave always ends in Idle (both drag flags
\* false, no dragged device), from the pan mode and from the drag mode alike,
\* and a pointer move made in Idle changes neither pan nor the positions nor
\* the manual set
ReleaseReturnsToIdle ==
  [][/\ lastOp'.kind = "mouseUp" => Idle'
     /\ (lastOp'.kind = "mouseMove" /\ Idle)
          => UNCHANGED <<pan, devicePositions, manuallyPositionedDevices>>]_vars

ReleaseReturnsWitness ==
  /\ lastOp.kind = "mouseMove"
  /\ Idle
  /\ manuallyPositionedDevices = {"a1"}
  /\ pan # [x |-> 0, y |-> 0]
  /\ lastOp.input # <<dragStart.x, dragStart.y>>

\* the links of the sequence whose two ends both have a position
Positioned(lnks, positions) ==
  SelectSeq(lnks, LAMBDA link : /\ link.localDeviceId \in DOMAIN positions
                                /\ link.remoteDeviceId \in DOMAIN positions)

\* C26: a link with an end that has no entry in the position map is
\* tolerated everywhere: it is not drawn and it adds no force in the
\* force-directed simulation, while the links with both ends positioned are
\* drawn between their ends and pull exactly as if the others were absent
DanglingLinksTolerated ==
  /\ [](\A l \in 1..Len(links) :
          LET dangling == \/ links[l].localDeviceId \notin DOMAIN devicePositions
                          \/ links[l].remoteDeviceId \notin DOMAIN devicePositions
              line == RenderedLinks(links, devicePositions)[l]
          IN /\ dangling => ~line.drawn
             /\ ~dangling =>
                  /\ line.drawn
                  /\ <<line.x1, line.y1>> = <<devicePositions[links[l].localDeviceId].x,
                                              devicePositions[links[l].localDeviceId].y>>
                  /\ <<line.x2, line.y2>> = <<devicePositions[links[l].remoteDeviceId].x,
                                              devicePositions[links[l].remoteDeviceId].y>>)
  /\ [][lastOp'.kind = "forceIteration"
          => /\ \A l \in 1..Len(links) :
                  simulation'.attraction[l].applied
                    = (/\ links[l].localDeviceId \in DOMAIN simulation.positions
                       /\ links[l].remoteDeviceId \in DOMAIN simulation.positions)
             /\ simulation'.positions
                  = ForceIterate(simulation.positions, devices,
                                 Positioned(links, simulation.positions), dimensions).positions]_vars

DanglingLinksWitness ==
  /\ simulation.running
  /\ simulation.i = 1
  /\ \E l \in 1..Len(links) : links[l].remoteDeviceId \notin DOMAIN simulation.positions
  /\ \E l \in 1..Len(links) : simulation.attraction[l].applied /\ simulation.attraction[l].fx # 0

\* C27: in every reachable state every id of the manual set has an entry in
\* the position map
ManualHavePositions == manuallyPositionedDevices \subseteq DOMAIN devicePositions

\* C28: the saved views are scoped to one site: the views listed and loadable
\* are exactly those persisted under the storage key of the current site, so
\* once the site has changed (to another site, to no site, or to a site whose
\* stored data cannot be parsed) no view of the previous site is left
ViewsScopedToSite ==
  savedViews = IF venueId = NoVenue THEN <<>> ELSE Persisted(localStorage, venueId)

\* C29: a save or a confirmed delete made while a site is selected writes
\* the storage key of that site only, and what it writes is the collection
\* persisted for that site before with just the named view added, replaced
\* or removed: no view of another site gets into the key and no other view of
\* the site is lost
WritesOwnSiteOnly ==
  [][/\ (lastOp'.kind \in {"saveView", "deleteView"} /\ venueId # NoVenue)
          => \A v \in Venues \ {venueId} : localStorage'[v] = localStorage[v]
     /\ (lastOp'.kind = "saveView" /\ lastOp'.alert = "saved successfully")
          => Persisted(localStorage', venueId)
               = ViewSet(Persisted(localStorage, venueId), lastOp'.name, CurrentView)
     /\ (lastOp'.kind = "deleteView" /\ lastOp'.answer)
          => Persisted(localStorage', venueId)
               = ViewDelete(Persisted(localStorage, venueId), lastOp'.name)]_vars

\* C30: leaving the page is warned about only while manual placements are
\* unsaved: right after a successful save or load (no drag since) there is no
\* warning, and right after a drag that moved a device there is one
UnloadWarnsOnlyUnsaved ==
  /\ (lastOp.kind = "saveView" /\ lastOp.alert = "saved successfully") => ~handleBeforeUnload
  /\ (lastOp.kind = "loadView" /\ lastOp.alert = "loaded successfully") => ~handleBeforeUnload
  /\ (lastOp.kind = "mouseMove" /\ isDraggingDevice /\ draggedDeviceId \in DOMAIN lastDrag)
       => handleBeforeUnload

====
